---- MODULE Spec2Model ----
(***************************************************************************)
(* Model of the rstherac25 simulation core: the shared TheracState         *)
(* (src/src/lib.rs), the treatment monitor and housekeeper tasks and the   *)
(* operator commands (src/src/simulator.rs, src/src/wasm.rs).              *)
(*                                                                         *)
(* One step of the model is one lock acquisition of the code (a read or a  *)
(* write section of the RwLock); the sleeps between two acquisitions are   *)
(* the points where the other tasks interleave.                            *)
(*                                                                         *)
(* Doses are fixed-point numbers in tenths of a cGy (2.0 cGy is 20), which *)
(* represents every dose the code computes (the smallest is 2.0 * 0.1).    *)
(* A message is the tuple of its text and of the values formatted into it; *)
(* the "[HH:MM:SS]" prefix add_log puts before it is left out.  An         *)
(* Option<String> is << >> for None and <<message>> for Some(message).     *)
(***************************************************************************)
EXTENDS Integers, Sequences, FiniteSets, TLC

VARIABLES
    state,   \* the TheracState behind the RwLock
    mon,     \* treatment_monitor: position and locals
    hk,      \* housekeeper: position and locals
    run,     \* what a behaviour keeps of the log, and its dose bound
    obs,     \* the last evaluation of a pure function: name, argument, result
    lock     \* the task whose guard of the RwLock is alive, "free" if none is

vars == <<state, mon, hk, run, obs, lock>>

----------------------------------------------------------------------------
(* Enumerations and records of lib.rs *)

BeamTypes == {"XRay", "Electron", "Undefined"}

BeamEnergies == {"E5", "E10", "E15", "E20", "E25"}

CollimatorPositions == {"InPosition", "OutOfPosition", "Transitioning"}

TPhases == {"Reset", "DataEntry", "SetupTest", "SetupDone", "PatientTreatment",
            "PauseTreatment", "TerminateTreatment", "DateTimeIdChanges"}

Meos == [beam_type : BeamTypes, beam_energy : BeamEnergies,
         collimator : CollimatorPositions]

MkMeos(bt, en, c) == [beam_type |-> bt, beam_energy |-> en, collimator |-> c]

MeosDefault == MkMeos("Undefined", "E10", "OutOfPosition")

TreatmentParamsDefault ==
    [gantry_angle |-> 0, collimator_angle |-> 0, field_size_x |-> 10,
     field_size_y |-> 10, dose_rate |-> 100]

----------------------------------------------------------------------------
(* Meos::is_safe and Meos::needs_collimator_sync *)

\* is_safe without the test of the collimator in X-ray mode
is_safe_xray_any(m) ==
    CASE m.beam_type = "XRay"      -> TRUE
      [] m.beam_type = "Electron"  -> m.collimator = "OutOfPosition"
      [] m.beam_type = "Undefined" -> FALSE

is_safe(m) ==
    CASE m.beam_type = "XRay"      -> m.collimator = "InPosition"
      [] m.beam_type = "Electron"  -> m.collimator = "OutOfPosition"
      [] m.beam_type = "Undefined" -> FALSE

\* needs_collimator_sync without the test for a collimator already moving
needs_collimator_sync_moving(m) == ~is_safe(m)

needs_collimator_sync(m) ==
    ~is_safe(m) /\ m.collimator # "Transitioning"

----------------------------------------------------------------------------
(* Bounds of the model *)

\* zap_the_specimen is not entered once this many malfunctions are recorded
MaxMalfunctions == 1

\* zap_the_specimen is not entered once this dose (tenths of a cGy) is reached
MaxDose == 100

\* the same bound for the scenarios that run a whole treatment
ScenarioMaxDose == 2500

\* number of "Dose target set" entries in the log a scenario starts with
LogPrefill == 88

\* Configurations the operator enters with update_console_meos
ConsoleInputs ==
    { MkMeos("XRay", "E25", "InPosition"), MkMeos("XRay", "E25", "OutOfPosition"),
      MkMeos("Electron", "E25", "InPosition") }

\* Values the operator enters with set_gantry_angle and set_dose_target
GantryInputs == {90, 400}

DoseTargetInputs == {80}

\* Values of rand::thread_rng() in the prescription generator: gen_bool(0.5),
\* gen_range(0..5), the rounded dose target and the rounded parameters.
RandBeam == {TRUE}

RandEnergy == {4}

RandDose == {1500}

RandParams ==
    {[gantry_angle |-> 180, collimator_angle |-> 0, field_size_x |-> 5,
      field_size_y |-> 20, dose_rate_xray |-> 80, dose_rate_electron |-> 200]}

\* Values of gen_range(12..=53) in zap_the_specimen: both sides of the threshold
ReliabilitySamples == {22, 23}

----------------------------------------------------------------------------
(* TheracState: construction, add_log, generate_new_reference, reset *)

LOG_LIMIT == 100

\* add_log draining one entry too few
add_log_keeping_101(s, message) ==
    LET pushed == Append(s.log, message)
        n == Len(pushed)
    IN  [s EXCEPT !.log = IF n > LOG_LIMIT + 1
                          THEN SubSeq(pushed, (n - LOG_LIMIT) + 1, n)
                          ELSE pushed]

\* self.log.push(..); if self.log.len() > 100 { self.log.drain(0..len-100) }
add_log(s, message) ==
    LET pushed == Append(s.log, message)
        n == Len(pushed)
    IN  [s EXCEPT !.log = IF n > LOG_LIMIT
                          THEN SubSeq(pushed, (n - LOG_LIMIT) + 1, n)
                          ELSE pushed]

EnergyOf(i) ==
    CASE i = 0 -> "E5" [] i = 1 -> "E10" [] i = 2 -> "E15" [] i = 3 -> "E20"
      [] OTHER -> "E25"

\* the collimator left out of position for every beam type
SafeCollimator_out(bt) ==
    CASE bt = "XRay" -> "OutOfPosition"
      [] OTHER       -> "OutOfPosition"

\* the collimator position the code derives from a beam type
SafeCollimator(bt) ==
    CASE bt = "XRay"      -> "InPosition"
      [] bt = "Electron"  -> "OutOfPosition"
      [] bt = "Undefined" -> "OutOfPosition"

\* The random draws of one prescription
Draws == [xray : RandBeam, energy : RandEnergy, dose : RandDose, params : RandParams]

PrescribedMeos(d) ==
    LET bt == IF d.xray THEN "XRay" ELSE "Electron"
    IN  MkMeos(bt, EnergyOf(d.energy), SafeCollimator(bt))

PrescribedParams(d) ==
    [gantry_angle |-> d.params.gantry_angle,
     collimator_angle |-> d.params.collimator_angle,
     field_size_x |-> d.params.field_size_x,
     field_size_y |-> d.params.field_size_y,
     dose_rate |-> IF d.xray THEN d.params.dose_rate_xray
                             ELSE d.params.dose_rate_electron]

\* TheracState::default().  The fields no function of the core reads (f_small,
\* bending_magnet_flag, reset_pending, class3_ignore, treatment_outcome) are
\* left out.
TheracStateNew(d) ==
    [console_meos |-> MeosDefault,
     hardware_meos |-> MeosDefault,
     reference_meos |-> PrescribedMeos(d),
     console_params |-> TreatmentParamsDefault,
     hardware_params |-> TreatmentParamsDefault,
     reference_params |-> PrescribedParams(d),
     phase |-> "Reset",
     data_entry_complete |-> FALSE,
     class3 |-> 0,
     editing_taking_place |-> FALSE,
     malfunction_count |-> 0,
     dose_delivered |-> 0,
     dose_target |-> 2000,
     reference_dose_target |-> d.dose,
     log |-> << >>,
     last_malfunction |-> << >>]

generate_new_reference(s, d) ==
    LET t == [s EXCEPT !.reference_meos = PrescribedMeos(d),
                       !.reference_dose_target = d.dose,
                       !.reference_params = PrescribedParams(d)]
    IN  add_log(t, <<"New prescription", t.reference_meos.beam_type,
                     t.reference_meos.beam_energy, t.reference_dose_target,
                     t.reference_params.gantry_angle, t.reference_params.field_size_x,
                     t.reference_params.field_size_y>>)

\* reset that also clears the malfunction counter
reset_clearing_malfunctions(s, d) ==
    generate_new_reference(
        add_log([s EXCEPT !.phase = "Reset",
                          !.data_entry_complete = FALSE,
                          !.class3 = 0,
                          !.editing_taking_place = FALSE,
                          !.malfunction_count = 0,
                          !.dose_delivered = 0,
                          !.dose_target = 2000,
                          !.last_malfunction = << >>,
                          !.console_meos = MeosDefault,
                          !.console_params = TreatmentParamsDefault],
                <<"System reset">>),
        d)

\* reset that also returns the hardware to its defaults
reset_with_hardware(s, d) ==
    generate_new_reference(
        add_log([s EXCEPT !.phase = "Reset",
                          !.data_entry_complete = FALSE,
                          !.class3 = 0,
                          !.editing_taking_place = FALSE,
                          !.dose_delivered = 0,
                          !.dose_target = 2000,
                          !.last_malfunction = << >>,
                          !.console_meos = MeosDefault,
                          !.console_params = TreatmentParamsDefault,
                          !.hardware_meos = MeosDefault,
                          !.hardware_params = TreatmentParamsDefault],
                <<"System reset">>),
        d)

reset(s, d) ==
    generate_new_reference(
        add_log([s EXCEPT !.phase = "Reset",
                          !.data_entry_complete = FALSE,
                          !.class3 = 0,
                          !.editing_taking_place = FALSE,
                          !.dose_delivered = 0,
                          !.dose_target = 2000,
                          !.last_malfunction = << >>,
                          !.console_meos = MeosDefault,
                          !.console_params = TreatmentParamsDefault],
                <<"System reset">>),
        d)

----------------------------------------------------------------------------
(* simulator.rs: the write sections of the treatment monitor's handlers *)

handle_reset(s) ==
    add_log([s EXCEPT !.phase = "DataEntry"], <<"Entering data entry mode">>)

handle_data_entry(s) ==
    add_log([s EXCEPT !.phase = "SetupTest", !.class3 = 0],
            <<"Data entry complete, starting setup test">>)

\* handle_setup_test leaving the setup test one tick early
handle_setup_test_early(s) ==
    LET c == (s.class3 + 1) % 256
        t == [s EXCEPT !.class3 = c]
    IN  IF c >= 10
        THEN add_log([t EXCEPT !.phase = "SetupDone"], <<"Setup test complete">>)
        ELSE t

\* class3 is a u8 incremented with wrapping_add
handle_setup_test(s) ==
    LET c == (s.class3 + 1) % 256
        t == [s EXCEPT !.class3 = c]
    IN  IF c > 10
        THEN add_log([t EXCEPT !.phase = "SetupDone"], <<"Setup test complete">>)
        ELSE t

\* handle_terminate_treatment logging the summary without leaving the phase
handle_terminate_treatment_staying(s) ==
    add_log(s, <<"Treatment terminated", s.dose_delivered, s.dose_target>>)

handle_terminate_treatment(s) ==
    [add_log(s, <<"Treatment terminated", s.dose_delivered, s.dose_target>>)
        EXCEPT !.phase = "Reset"]

handle_datetime_changes(s) ==
    [s EXCEPT !.phase = "DataEntry"]

\* calculate_dose without the 0.8 of the X-ray mode
calculate_dose_unfiltered(m) ==
    LET base_dose ==
            CASE m.beam_energy = "E5"  -> 20
              [] m.beam_energy = "E10" -> 40
              [] m.beam_energy = "E15" -> 60
              [] m.beam_energy = "E20" -> 80
              [] m.beam_energy = "E25" -> 100
    IN  CASE m.beam_type = "XRay"      -> base_dose
          [] m.beam_type = "Electron"  -> base_dose
          [] m.beam_type = "Undefined" -> 0

\* calculate_dose giving the 25 MeV level the dose of the 20 MeV level
calculate_dose_capped(m) ==
    LET base_dose ==
            CASE m.beam_energy = "E5"  -> 20
              [] m.beam_energy = "E10" -> 40
              [] m.beam_energy = "E15" -> 60
              [] m.beam_energy = "E20" -> 80
              [] m.beam_energy = "E25" -> 80
    IN  CASE m.beam_type = "XRay"      -> (base_dose * 8) \div 10
          [] m.beam_type = "Electron"  -> base_dose
          [] m.beam_type = "Undefined" -> 0

\* dose of one pulse, in tenths of a cGy
calculate_dose(m) ==
    LET base_dose ==
            CASE m.beam_energy = "E5"  -> 20
              [] m.beam_energy = "E10" -> 40
              [] m.beam_energy = "E15" -> 60
              [] m.beam_energy = "E20" -> 80
              [] m.beam_energy = "E25" -> 100
    IN  CASE m.beam_type = "XRay"      -> (base_dose * 8) \div 10
          [] m.beam_type = "Electron"  -> base_dose
          [] m.beam_type = "Undefined" -> 0

\* the multiplier of an unsafe pulse without the underdose of the electron mode
dose_multiplier_no_underdose(m) ==
    CASE m.beam_type = "XRay" /\ m.collimator = "OutOfPosition"    -> 1000
      [] OTHER                                                     -> 10

\* the multiplier of an unsafe pulse, in tenths (100.0 is 1000, 0.1 is 1)
dose_multiplier(m) ==
    CASE m.beam_type = "XRay" /\ m.collimator = "OutOfPosition"    -> 1000
      [] m.beam_type = "Electron" /\ m.collimator = "InPosition"   -> 1
      [] OTHER                                                     -> 10

\* the mismatch branch without the write of the phase
parameter_mismatch_no_pause(s, console_meos, hardware_meos) ==
    LET t == [s EXCEPT !.malfunction_count = @ + 1]
        malfunction_msg ==
            <<"MALFUNCTION 54", t.malfunction_count,
              console_meos.beam_type, console_meos.collimator,
              hardware_meos.beam_type, hardware_meos.collimator>>
    IN  add_log([t EXCEPT !.last_malfunction = <<malfunction_msg>>], malfunction_msg)

\* the mismatch branch bringing the hardware in line with the console
parameter_mismatch_repairing(s, console_meos, hardware_meos) ==
    LET t == [s EXCEPT !.malfunction_count = @ + 1, !.phase = "PauseTreatment",
                       !.hardware_meos = s.console_meos]
        malfunction_msg ==
            <<"MALFUNCTION 54", t.malfunction_count,
              console_meos.beam_type, console_meos.collimator,
              hardware_meos.beam_type, hardware_meos.collimator>>
    IN  add_log([t EXCEPT !.last_malfunction = <<malfunction_msg>>], malfunction_msg)

\* zap_the_specimen, branch "MALFUNCTION 54": the copies read earlier differ
parameter_mismatch(s, console_meos, hardware_meos) ==
    LET t == [s EXCEPT !.malfunction_count = @ + 1, !.phase = "PauseTreatment"]
        malfunction_msg ==
            <<"MALFUNCTION 54", t.malfunction_count,
              console_meos.beam_type, console_meos.collimator,
              hardware_meos.beam_type, hardware_meos.collimator>>
    IN  add_log([t EXCEPT !.last_malfunction = <<malfunction_msg>>], malfunction_msg)

\* the unsafe branch reporting the violation without firing the beam
safety_violation_no_dose(s) ==
    LET dose_multiplier_ == dose_multiplier(s.hardware_meos)
        t == [s EXCEPT !.malfunction_count = @ + 1, !.phase = "PauseTreatment"]
        malfunction_msg ==
            <<"CRITICAL SAFETY VIOLATION", dose_multiplier_, 0,
              t.dose_delivered, t.dose_target>>
    IN  add_log([t EXCEPT !.last_malfunction = <<malfunction_msg>>], malfunction_msg)

\* the unsafe branch ending the treatment when its pulse reaches the target
safety_violation_terminating(s) ==
    LET dose_multiplier_ == dose_multiplier(s.hardware_meos)
        dose_this_pulse == (calculate_dose(s.hardware_meos) * dose_multiplier_) \div 10
        t == [s EXCEPT !.malfunction_count = @ + 1,
                       !.dose_delivered = @ + dose_this_pulse,
                       !.phase = IF s.dose_delivered + dose_this_pulse >= s.dose_target
                                 THEN "TerminateTreatment"
                                 ELSE "PauseTreatment"]
        malfunction_msg ==
            <<"CRITICAL SAFETY VIOLATION", dose_multiplier_, dose_this_pulse,
              t.dose_delivered, t.dose_target>>
    IN  add_log([t EXCEPT !.last_malfunction = <<malfunction_msg>>], malfunction_msg)

\* zap_the_specimen, branch "CRITICAL SAFETY VIOLATION": the hardware
\* configuration of s, the state at the write, is unsafe
safety_violation(s) ==
    LET dose_multiplier_ == dose_multiplier(s.hardware_meos)
        dose_this_pulse == (calculate_dose(s.hardware_meos) * dose_multiplier_) \div 10
        t == [s EXCEPT !.malfunction_count = @ + 1,
                       !.dose_delivered = @ + dose_this_pulse,
                       !.phase = "PauseTreatment"]
        malfunction_msg ==
            <<"CRITICAL SAFETY VIOLATION", dose_multiplier_, dose_this_pulse,
              t.dose_delivered, t.dose_target>>
    IN  add_log([t EXCEPT !.last_malfunction = <<malfunction_msg>>], malfunction_msg)

\* the random fault pausing the treatment without counting the malfunction
random_fault_uncounted(s, really_good_number) ==
    LET t == [s EXCEPT !.phase = "PauseTreatment"]
        malfunction_msg == <<"MALFUNCTION random", really_good_number>>
    IN  add_log([t EXCEPT !.last_malfunction = <<malfunction_msg>>], malfunction_msg)

\* zap_the_specimen, branch "Random hardware fault"
random_fault(s, really_good_number) ==
    LET t == [s EXCEPT !.malfunction_count = @ + 1, !.phase = "PauseTreatment"]
        malfunction_msg == <<"MALFUNCTION random", really_good_number>>
    IN  add_log([t EXCEPT !.last_malfunction = <<malfunction_msg>>], malfunction_msg)

\* the normal pulse subtracting the dose of the pulse
normal_pulse_subtracting(s) ==
    LET dose_this_pulse == calculate_dose(s.hardware_meos)
        t == add_log([s EXCEPT !.dose_delivered = @ - dose_this_pulse],
                     <<"Beam delivered", dose_this_pulse,
                       s.dose_delivered - dose_this_pulse, s.dose_target>>)
    IN  IF t.dose_delivered >= t.dose_target
        THEN add_log([t EXCEPT !.phase = "TerminateTreatment"],
                     <<"Target dose reached">>)
        ELSE t

\* the normal pulse terminating only above the target
normal_pulse_above_target(s) ==
    LET dose_this_pulse == calculate_dose(s.hardware_meos)
        t == add_log([s EXCEPT !.dose_delivered = @ + dose_this_pulse],
                     <<"Beam delivered", dose_this_pulse,
                       s.dose_delivered + dose_this_pulse, s.dose_target>>)
    IN  IF t.dose_delivered > t.dose_target
        THEN add_log([t EXCEPT !.phase = "TerminateTreatment"],
                     <<"Target dose reached">>)
        ELSE t

\* the normal pulse logging the beam without adding its dose
normal_pulse_without_dose(s) ==
    LET dose_this_pulse == calculate_dose(s.hardware_meos)
        t == add_log(s, <<"Beam delivered", dose_this_pulse,
                          s.dose_delivered, s.dose_target>>)
    IN  IF t.dose_delivered >= t.dose_target
        THEN add_log([t EXCEPT !.phase = "TerminateTreatment"],
                     <<"Target dose reached">>)
        ELSE t

\* zap_the_specimen, normal beam delivery
normal_pulse(s) ==
    LET dose_this_pulse == calculate_dose(s.hardware_meos)
        t == add_log([s EXCEPT !.dose_delivered = @ + dose_this_pulse],
                     <<"Beam delivered", dose_this_pulse,
                       s.dose_delivered + dose_this_pulse, s.dose_target>>)
    IN  IF t.dose_delivered >= t.dose_target
        THEN add_log([t EXCEPT !.phase = "TerminateTreatment"],
                     <<"Target dose reached">>)
        ELSE t

\* zap_the_specimen testing the hardware of the state before the two copies
zap_the_specimen_safety_first(s, console_meos, hardware_meos, really_good_number) ==
    IF ~is_safe(s.hardware_meos)
    THEN safety_violation(s)
    ELSE IF console_meos # hardware_meos
    THEN parameter_mismatch(s, console_meos, hardware_meos)
    ELSE IF really_good_number > 22
    THEN random_fault(s, really_good_number)
    ELSE normal_pulse(s)

\* zap_the_specimen testing the random number before the two other tests
zap_the_specimen_random_first(s, console_meos, hardware_meos, really_good_number) ==
    IF really_good_number > 22
    THEN random_fault(s, really_good_number)
    ELSE IF console_meos # hardware_meos
    THEN parameter_mismatch(s, console_meos, hardware_meos)
    ELSE IF ~is_safe(s.hardware_meos)
    THEN safety_violation(s)
    ELSE normal_pulse(s)

\* zap_the_specimen testing the safety of the copy read before the sleep
zap_the_specimen_stale_safety(s, console_meos, hardware_meos, really_good_number) ==
    IF console_meos # hardware_meos
    THEN parameter_mismatch(s, console_meos, hardware_meos)
    ELSE IF ~is_safe(hardware_meos)
    THEN safety_violation(s)
    ELSE IF really_good_number > 22
    THEN random_fault(s, really_good_number)
    ELSE normal_pulse(s)

\* The write section of zap_the_specimen.  console_meos and hardware_meos are
\* the copies read before the sleep; s is the TheracState at the write.
zap_the_specimen(s, console_meos, hardware_meos, really_good_number) ==
    IF console_meos # hardware_meos
    THEN parameter_mismatch(s, console_meos, hardware_meos)
    ELSE IF ~is_safe(s.hardware_meos)
    THEN safety_violation(s)
    ELSE IF really_good_number > 22
    THEN random_fault(s, really_good_number)
    ELSE normal_pulse(s)

----------------------------------------------------------------------------
(* simulator.rs, wasm.rs: operator commands, each one write section *)

start_treatment(s) ==
    IF s.phase = "SetupDone"
    THEN add_log([s EXCEPT !.phase = "PatientTreatment"],
                 <<"Starting patient treatment">>)
    ELSE s

stop_treatment(s) ==
    IF s.phase = "PatientTreatment"
    THEN add_log([s EXCEPT !.phase = "PauseTreatment"],
                 <<"Treatment paused by operator">>)
    ELSE s

resume_treatment(s) ==
    IF s.phase = "PauseTreatment"
    THEN add_log([s EXCEPT !.phase = "PatientTreatment", !.last_malfunction = << >>],
                 <<"Treatment resumed">>)
    ELSE s

\* complete_data_entry copying the console settings to the hardware
complete_data_entry_syncing(s) ==
    IF s.phase = "DataEntry"
    THEN add_log([s EXCEPT !.data_entry_complete = TRUE,
                           !.editing_taking_place = FALSE,
                           !.hardware_meos = s.console_meos],
                 <<"Data entry complete - hardware sync pending">>)
    ELSE s

complete_data_entry(s) ==
    IF s.phase = "DataEntry"
    THEN add_log([s EXCEPT !.data_entry_complete = TRUE,
                           !.editing_taking_place = FALSE],
                 <<"Data entry complete - hardware sync pending">>)
    ELSE s

update_console_meos(s, meos) ==
    IF s.phase = "DataEntry" \/ s.phase = "SetupTest"
    THEN add_log([s EXCEPT !.console_meos = meos],
                 <<"Console updated", meos.beam_type, meos.beam_energy,
                   meos.collimator>>)
    ELSE s

\* WasmTherac25::set_gantry_angle
set_gantry_angle(s, angle) ==
    IF s.phase = "DataEntry"
    THEN LET a == IF angle < 360 THEN angle ELSE 360
         IN  add_log([s EXCEPT !.console_params.gantry_angle = a],
                     <<"Gantry angle set", a>>)
    ELSE s

\* WasmTherac25::set_dose_target
set_dose_target(s, target) ==
    add_log([s EXCEPT !.dose_target = target], <<"Dose target set", target>>)

\* generate_race_condition_parameters that also moves the collimator
generate_race_condition_parameters_moving(current) ==
    LET new_beam_type ==
            CASE current.beam_type = "XRay"      -> "Electron"
              [] current.beam_type = "Electron"  -> "XRay"
              [] current.beam_type = "Undefined" -> "Electron"
    IN  MkMeos(new_beam_type, current.beam_energy, SafeCollimator(new_beam_type))

generate_race_condition_parameters(current) ==
    LET new_beam_type ==
            CASE current.beam_type = "XRay"      -> "Electron"
              [] current.beam_type = "Electron"  -> "XRay"
              [] current.beam_type = "Undefined" -> "Electron"
    IN  MkMeos(new_beam_type, current.beam_energy, current.collimator)

----------------------------------------------------------------------------
(* The two tasks.  pc is the lock acquisition a task makes next. *)

MonIdle ==
    [pc |-> "poll", really_good_number |-> 0,
     console_meos |-> MeosDefault, hardware_meos |-> MeosDefault]

HkIdle ==
    [pc |-> "poll", console_beam_type |-> "Undefined",
     current_collimator |-> "OutOfPosition"]

ObsIdle == [fn |-> "none", arg |-> MeosDefault, res |-> <<>>]

\* The concurrent specification keeps, of the log, the entries of the latest
\* write section: no task and no command reads the log, and the entries before
\* them are a history that only tells apart states the code treats alike.
\* The sequential specifications keep the whole log.
RunRecent ==
    [whole_log |-> FALSE, max_dose |-> MaxDose, max_malfunctions |-> MaxMalfunctions]

RunWhole ==
    [whole_log |-> TRUE, max_dose |-> ScenarioMaxDose,
     max_malfunctions |-> MaxMalfunctions]

\* the TheracState a write section starts from
Locked == IF run.whole_log THEN state ELSE [state EXCEPT !.log = << >>]

\* A read or a write section: state.read() or state.write() needs the lock
\* free, and the guard is dropped at the end of the block or of the function,
\* before the next .await.
Section == lock = "free" /\ lock' = "free"

\* treatment_monitor: read the phase, pick the handler
MonitorDispatch ==
    /\ Section
    /\ mon.pc = "poll"
    /\ mon' = [mon EXCEPT !.pc =
            CASE state.phase = "Reset"              -> "reset"
              [] state.phase = "DataEntry"          -> "data_entry_read"
              [] state.phase = "SetupTest"          -> "setup_test"
              [] state.phase = "SetupDone"          -> "poll"
              [] state.phase = "PatientTreatment"   -> "zap_read"
              [] state.phase = "PauseTreatment"     -> "poll"
              [] state.phase = "TerminateTreatment" -> "terminate"
              [] state.phase = "DateTimeIdChanges"  -> "datetime"]
    /\ UNCHANGED <<state, hk, run, obs>>

MonitorReset ==
    /\ Section
    /\ mon.pc = "reset"
    /\ state' = handle_reset(Locked)
    /\ mon' = MonIdle
    /\ UNCHANGED <<hk, run, obs>>

MonitorDataEntryRead ==
    /\ Section
    /\ mon.pc = "data_entry_read"
    /\ mon' = [mon EXCEPT !.pc = IF state.data_entry_complete
                                 THEN "data_entry_write" ELSE "poll"]
    /\ UNCHANGED <<state, hk, run, obs>>

MonitorDataEntryWrite ==
    /\ Section
    /\ mon.pc = "data_entry_write"
    /\ state' = handle_data_entry(Locked)
    /\ mon' = MonIdle
    /\ UNCHANGED <<hk, run, obs>>

MonitorSetupTest ==
    /\ Section
    /\ mon.pc = "setup_test"
    /\ state' = handle_setup_test(Locked)
    /\ mon' = MonIdle
    /\ UNCHANGED <<hk, run, obs>>

MonitorTerminate ==
    /\ Section
    /\ mon.pc = "terminate"
    /\ state' = handle_terminate_treatment(Locked)
    /\ mon' = MonIdle
    /\ UNCHANGED <<hk, run, obs>>

\* No code writes TPhase::DateTimeIdChanges into the phase, so this handler
\* never runs and Next leaves it out.
MonitorDateTime ==
    /\ Section
    /\ mon.pc = "datetime"
    /\ state' = handle_datetime_changes(Locked)
    /\ mon' = MonIdle
    /\ UNCHANGED <<hk, run, obs>>

\* zap_the_specimen, the read section: the draw and the two copies
ZapRead ==
    /\ Section
    /\ mon.pc = "zap_read"
    /\ state.malfunction_count < run.max_malfunctions
    /\ state.dose_delivered < run.max_dose
    /\ \E r \in ReliabilitySamples :
          mon' = [pc |-> "zap_write", really_good_number |-> r,
                  console_meos |-> state.console_meos,
                  hardware_meos |-> state.hardware_meos]
    /\ UNCHANGED <<state, hk, run, obs>>

\* zap_the_specimen, the write section
ZapWrite ==
    /\ Section
    /\ mon.pc = "zap_write"
    /\ state' = zap_the_specimen(Locked, mon.console_meos, mon.hardware_meos,
                                 mon.really_good_number)
    /\ mon' = MonIdle
    /\ UNCHANGED <<hk, run, obs>>

\* sync_collimator: the read of needs_sync
HkNeedsSync ==
    /\ Section
    /\ hk.pc = "poll"
    /\ hk' = [hk EXCEPT !.pc =
            IF state.phase # "PatientTreatment"
               /\ needs_collimator_sync(state.console_meos)
            THEN "sync_read" ELSE "params_check"]
    /\ UNCHANGED <<state, mon, run, obs>>

HkSyncRead ==
    /\ Section
    /\ hk.pc = "sync_read"
    /\ hk' = [pc |-> IF state.hardware_meos.collimator # "Transitioning"
                     THEN "sync_move" ELSE "sync_complete",
              console_beam_type |-> state.console_meos.beam_type,
              current_collimator |-> state.hardware_meos.collimator]
    /\ UNCHANGED <<state, mon, run, obs>>

sync_move(s) ==
    add_log([s EXCEPT !.hardware_meos.collimator = "Transitioning"],
            <<"Collimator moving...">>)

\* the write of the moving collimator with its guard alive across the sleep
\* of the movement
HkSyncMove_holding ==
    /\ lock = "free"
    /\ lock' = "housekeeper"
    /\ hk.pc = "sync_move"
    /\ state' = sync_move(Locked)
    /\ hk' = [hk EXCEPT !.pc = "sync_complete"]
    /\ UNCHANGED <<mon, run, obs>>

HkSyncMove ==
    /\ Section
    /\ hk.pc = "sync_move"
    /\ state' = sync_move(Locked)
    /\ hk' = [hk EXCEPT !.pc = "sync_complete"]
    /\ UNCHANGED <<mon, run, obs>>

\* the completion write leaving the collimator where the movement put it
sync_complete_still_moving(s, console_beam_type) ==
    LET target_position == SafeCollimator(console_beam_type)
    IN  add_log([s EXCEPT !.hardware_meos =
                     MkMeos(s.console_meos.beam_type, s.console_meos.beam_energy,
                            s.hardware_meos.collimator)],
                <<"Hardware synced", s.console_meos.beam_type,
                  s.console_meos.beam_energy, target_position>>)

\* the target position comes from the beam type read before the movement,
\* the beam type and the energy from the console at the write
sync_complete(s, console_beam_type) ==
    LET target_position == SafeCollimator(console_beam_type)
    IN  add_log([s EXCEPT !.hardware_meos =
                     MkMeos(s.console_meos.beam_type, s.console_meos.beam_energy,
                            target_position)],
                <<"Hardware synced", s.console_meos.beam_type,
                  s.console_meos.beam_energy, target_position>>)

HkSyncComplete ==
    /\ Section
    /\ hk.pc = "sync_complete"
    /\ state' = sync_complete(Locked, hk.console_beam_type)
    /\ hk' = [HkIdle EXCEPT !.pc = "params_check"]
    /\ UNCHANGED <<mon, run, obs>>

HkParamsCheck ==
    /\ Section
    /\ hk.pc = "params_check"
    /\ hk' = [hk EXCEPT !.pc =
            IF state.phase # "PatientTreatment"
               /\ state.console_params # state.hardware_params
            THEN "params_write" ELSE "poll"]
    /\ UNCHANGED <<state, mon, run, obs>>

\* the copy of the parameters leaving the gantry where it is
sync_params_keeping_gantry(s) ==
    [s EXCEPT !.hardware_params =
        [s.console_params EXCEPT !.gantry_angle = s.hardware_params.gantry_angle]]

sync_params(s) == [s EXCEPT !.hardware_params = s.console_params]

HkParamsWrite ==
    /\ Section
    /\ hk.pc = "params_write"
    /\ state' = sync_params(Locked)
    /\ hk' = HkIdle
    /\ UNCHANGED <<mon, run, obs>>

----------------------------------------------------------------------------
(* Operator commands *)

\* a command refused in the current phase returns without writing
Written(t) == IF t = Locked THEN state ELSE t

StartTreatment ==
    /\ Section
    /\ state' = Written(start_treatment(Locked))
    /\ UNCHANGED <<mon, hk, run, obs>>

StopTreatment ==
    /\ Section
    /\ state' = Written(stop_treatment(Locked))
    /\ UNCHANGED <<mon, hk, run, obs>>

ResumeTreatment ==
    /\ Section
    /\ state' = Written(resume_treatment(Locked))
    /\ UNCHANGED <<mon, hk, run, obs>>

CompleteDataEntry ==
    /\ Section
    /\ state' = Written(complete_data_entry(Locked))
    /\ UNCHANGED <<mon, hk, run, obs>>

UpdateConsoleMeos ==
    /\ Section
    /\ \E meos \in ConsoleInputs : state' = Written(update_console_meos(Locked, meos))
    /\ UNCHANGED <<mon, hk, run, obs>>

SetGantryAngle ==
    /\ Section
    /\ \E angle \in GantryInputs : state' = Written(set_gantry_angle(Locked, angle))
    /\ UNCHANGED <<mon, hk, run, obs>>

SetDoseTarget ==
    /\ Section
    /\ \E target \in DoseTargetInputs : state' = set_dose_target(Locked, target)
    /\ UNCHANGED <<mon, hk, run, obs>>

ResetCommand ==
    /\ Section
    /\ \E d \in Draws : state' = reset(Locked, d)
    /\ UNCHANGED <<mon, hk, run, obs>>

----------------------------------------------------------------------------
(* The concurrent specification: both tasks and the operator *)

\* main.rs, WasmTherac25::new: the state, its first log entry, the two tasks
Init ==
    /\ \E d \in Draws :
          state = add_log(TheracStateNew(d), <<"System initialized">>)
    /\ mon = MonIdle
    /\ hk = HkIdle
    /\ run = RunRecent
    /\ obs = ObsIdle
    /\ lock = "free"

Monitor ==
    \/ MonitorDispatch
    \/ MonitorReset
    \/ MonitorDataEntryRead
    \/ MonitorDataEntryWrite
    \/ MonitorSetupTest
    \/ MonitorTerminate
    \/ ZapRead
    \/ ZapWrite

Housekeeper ==
    \/ HkNeedsSync
    \/ HkSyncRead
    \/ HkSyncMove
    \/ HkSyncComplete
    \/ HkParamsCheck

\* The operator of this specification leaves the treatment parameters alone
\* (SetGantryAngle), so console_params and hardware_params stay equal and
\* the housekeeper never reaches HkParamsWrite.
Command ==
    \/ StartTreatment
    \/ StopTreatment
    \/ ResumeTreatment
    \/ CompleteDataEntry
    \/ UpdateConsoleMeos
    \/ SetDoseTarget
    \/ ResetCommand

Next == Monitor \/ Housekeeper \/ Command

Spec == Init /\ [][Next]_vars

----------------------------------------------------------------------------
(* The sequential specification: the two tasks after a session of the      *)
(* operator, with the whole log.                                           *)

XRayE25In == MkMeos("XRay", "E25", "InPosition")

XRayE25Out == MkMeos("XRay", "E25", "OutOfPosition")

ElectronE25In == MkMeos("Electron", "E25", "InPosition")

RECURSIVE SetDoseTargetTimes(_, _)
SetDoseTargetTimes(s, n) ==
    IF n = 0 THEN s ELSE SetDoseTargetTimes(set_dose_target(s, s.dose_target), n - 1)

RECURSIVE SetupTestTicks(_, _)
SetupTestTicks(s, n) ==
    IF n = 0 THEN s ELSE SetupTestTicks(handle_setup_test(s), n - 1)

\* the session up to the first synchronisation of the hardware: the operator
\* enters X-ray at 25 MeV with the collimator out, the housekeeper moves it in
SessionSynced(d) ==
    sync_complete(
        sync_move(
            update_console_meos(
                handle_reset(add_log(TheracStateNew(d), <<"System initialized">>)),
                XRayE25Out)),
        "XRay")

\* ... then the operator sets the dose target LogPrefill times, sets the
\* gantry angle and completes the data entry, the console still being unsafe
SessionEditing(d) ==
    complete_data_entry(
        set_gantry_angle(SetDoseTargetTimes(SessionSynced(d), LogPrefill), 90))

\* ... or the operator corrects the collimator, completes the data entry and
\* starts the treatment after the setup test
SessionTreating(d) ==
    start_treatment(
        SetupTestTicks(
            handle_data_entry(
                complete_data_entry(update_console_meos(SessionSynced(d), XRayE25In))),
            11))

InitSession ==
    /\ \E d \in Draws : state \in {SessionEditing(d), SessionTreating(d)}
    /\ mon = MonIdle
    /\ hk = HkIdle
    /\ run = RunWhole
    /\ obs = ObsIdle
    /\ lock = "free"

HousekeeperParams == HkParamsWrite

NextSession == Monitor \/ Housekeeper \/ HousekeeperParams

SpecSession == InitSession /\ [][NextSession]_vars

----------------------------------------------------------------------------
(* The pure functions of a configuration, applied to every configuration *)

InitPure ==
    /\ \E d \in Draws :
          state = add_log(TheracStateNew(d), <<"System initialized">>)
    /\ mon = MonIdle
    /\ hk = HkIdle
    /\ run = RunRecent
    /\ obs \in [fn : {"none"}, arg : Meos, res : {<< >>}]
    /\ lock = "free"

EvalIsSafe ==
    /\ obs' = [fn |-> "is_safe", arg |-> obs.arg, res |-> <<is_safe(obs.arg)>>]
    /\ UNCHANGED <<state, mon, hk, run, lock>>

EvalNeedsCollimatorSync ==
    /\ obs' = [fn |-> "needs_collimator_sync", arg |-> obs.arg,
               res |-> <<needs_collimator_sync(obs.arg)>>]
    /\ UNCHANGED <<state, mon, hk, run, lock>>

EvalRaceConditionParameters ==
    /\ obs' = [fn |-> "generate_race_condition_parameters", arg |-> obs.arg,
               res |-> <<generate_race_condition_parameters(obs.arg)>>]
    /\ UNCHANGED <<state, mon, hk, run, lock>>

EvalCalculateDose ==
    /\ obs' = [fn |-> "calculate_dose", arg |-> obs.arg,
               res |-> <<calculate_dose(obs.arg)>>]
    /\ UNCHANGED <<state, mon, hk, run, lock>>

NextPure ==
    \/ EvalIsSafe
    \/ EvalNeedsCollimatorSync
    \/ EvalRaceConditionParameters
    \/ EvalCalculateDose

SpecPure == InitPure /\ [][NextPure]_vars

----------------------------------------------------------------------------
(* Properties *)

XRayE25Moving == MkMeos("XRay", "E25", "Transitioning")

\* the kind of the malfunction recorded last, "" when there is none
LastMalfunctionKind ==
    IF state.last_malfunction = << >> THEN "" ELSE state.last_malfunction[1][1]

\* C1: a beam delivery that read the console {Electron, E25, InPosition} and
\* the hardware still in X-ray mode (collimator InPosition or Transitioning),
\* and that writes while the housekeeper's synchronisation is in flight,
\* records a parameter mismatch or a critical safety violation: the
\* malfunction counter goes up by one, last_malfunction is set and the phase
\* becomes PauseTreatment.
C1_RaceRecorded ==
    [][(/\ ZapWrite
        /\ mon.console_meos = ElectronE25In
        /\ mon.hardware_meos \in {XRayE25In, XRayE25Moving}
        /\ hk.pc \in {"sync_move", "sync_complete"})
       => (/\ state'.malfunction_count = state.malfunction_count + 1
           /\ state'.last_malfunction # << >>
           /\ state'.last_malfunction[1][1]
                 \in {"MALFUNCTION 54", "CRITICAL SAFETY VIOLATION"}
           /\ state'.phase = "PauseTreatment")]_vars

\* the race has been reproduced: the console shows the electron mode, the
\* housekeeper that read it has not completed, the hardware is in X-ray mode
\* and the beam delivery has recorded the mismatch of the two and paused
C1_RaceReproduced ==
    /\ state.console_meos = ElectronE25In
    /\ state.hardware_meos \in {XRayE25In, XRayE25Moving}
    /\ hk.pc \in {"sync_move", "sync_complete"}
    /\ hk.console_beam_type = "Electron"
    /\ hk.current_collimator = "InPosition"
    /\ mon.pc = "poll"
    /\ state.phase = "PauseTreatment"
    /\ state.malfunction_count = 1
    /\ LastMalfunctionKind = "MALFUNCTION 54"
    /\ state.last_malfunction[1][3] = "Electron"
    /\ state.last_malfunction[1][5] = "XRay"

\* C2: when the housekeeper has written the hardware configuration since the
\* beam delivery read its two copies, the copies are equal and the hardware
\* configuration is now unsafe, the write section of the beam delivery adds
\* the dose of a pulse of the unsafe configuration to dose_delivered, a
\* positive dose unless the beam type of the hardware is Undefined.
C2_StaleCheckFires ==
    [][(/\ ZapWrite
        /\ mon.console_meos = mon.hardware_meos
        /\ state.hardware_meos # mon.hardware_meos
        /\ ~is_safe(state.hardware_meos))
       => (/\ state'.dose_delivered =
                 state.dose_delivered
                 + (calculate_dose(state.hardware_meos)
                    * dose_multiplier(state.hardware_meos)) \div 10
           /\ (state.hardware_meos.beam_type # "Undefined"
                  => state'.dose_delivered > state.dose_delivered)
           /\ LET kind == state'.last_malfunction[1][1]
              IN  kind = "CRITICAL SAFETY VIOLATION")]_vars

\* the beam delivery is between its read and its write, its copies are equal
\* and safe, and the housekeeper has since put the hardware in X-ray mode
\* with the collimator out of position
C2_StaleCheckPending ==
    /\ mon.pc = "zap_write"
    /\ mon.console_meos = mon.hardware_meos
    /\ mon.hardware_meos = XRayE25In
    /\ state.hardware_meos = XRayE25Out
    /\ state.phase = "PatientTreatment"

\* C3: is_safe is true exactly for X-ray with the collimator in position and
\* for electron with the collimator out of position; it is false for the
\* beam type Undefined and for the collimator Transitioning, and it is the
\* same for every energy.
C3_IsSafeTable ==
    obs.fn = "is_safe" =>
        /\ obs.res[1] = ( \/ (obs.arg.beam_type = "XRay"
                              /\ obs.arg.collimator = "InPosition")
                          \/ (obs.arg.beam_type = "Electron"
                              /\ obs.arg.collimator = "OutOfPosition") )
        /\ (obs.arg.beam_type = "Undefined" => obs.res[1] = FALSE)
        /\ (obs.arg.collimator = "Transitioning" => obs.res[1] = FALSE)
        /\ \A e \in BeamEnergies :
              is_safe([obs.arg EXCEPT !.beam_energy = e]) = obs.res[1]

C3_XRayOutEvaluated ==
    /\ obs.fn = "is_safe"
    /\ obs.arg = MkMeos("XRay", "E5", "OutOfPosition")
    /\ obs.res = <<FALSE>>

\* C4: needs_collimator_sync is true exactly when is_safe is false and the
\* collimator is not Transitioning.
C4_NeedsSyncTable ==
    obs.fn = "needs_collimator_sync" =>
        obs.res[1] = (is_safe(obs.arg) = FALSE
                      /\ obs.arg.collimator # "Transitioning")

C4_MovingEvaluated ==
    /\ obs.fn = "needs_collimator_sync"
    /\ obs.arg = MkMeos("Electron", "E10", "Transitioning")
    /\ obs.res = <<FALSE>>

\* C5: the write section of a beam delivery never lowers dose_delivered,
\* whatever the housekeeper and the operator did since its read and
\* whichever of its four branches it takes.
C5_DoseMonotone ==
    [][ZapWrite => state'.dose_delivered >= state.dose_delivered]_vars

\* a beam delivery has fired on an unsafe configuration while a
\* synchronisation of the housekeeper was in flight
C5_DoseAdded ==
    /\ LastMalfunctionKind = "CRITICAL SAFETY VIOLATION"
    /\ state.dose_delivered > 0
    /\ hk.pc = "sync_complete"
    /\ mon.pc = "poll"

\* C6: reset leaves the phase Reset and dose_delivered 0 and does not change
\* malfunction_count.
C6_ResetFrame ==
    [][ResetCommand
       => (/\ state'.phase = "Reset"
           /\ state'.dose_delivered = 0
           /\ state'.malfunction_count = state.malfunction_count)]_vars

\* the state after a reset that followed a malfunction
C6_ResetAfterMalfunction ==
    /\ state.phase = "Reset"
    /\ state.dose_delivered = 0
    /\ state.malfunction_count = 1
    /\ Len(state.log) = 2
    /\ state.log[1] = <<"System reset">>

\* the last n entries of a sequence, in their order
LastEntries(seq, n) ==
    IF Len(seq) <= n THEN seq ELSE SubSeq(seq, Len(seq) - n + 1, Len(seq))

\* C7: the log never holds more than 100 entries, and every write section
\* leaves in it the last 100 of the entries it held followed by the entries
\* the section appended (at most two), in that order: the entries evicted
\* are the oldest.
C7_LogBounded ==
    /\ [](Len(state.log) <= 100)
    /\ [][\E k \in 0..2 :
            /\ k <= Len(state'.log)
            /\ state'.log =
                  LastEntries(
                      state.log \o SubSeq(state'.log, Len(state'.log) - k + 1,
                                          Len(state'.log)),
                      100)]_vars

\* the log is full and its oldest entries, those of the start of the run,
\* have been evicted by the entries of the housekeeper
C7_LogEvicted ==
    /\ Len(state.log) = 100
    /\ state.log[1] # <<"System initialized">>
    /\ state.log[1][1] = "Dose target set"
    /\ state.log[100][1] = "Hardware synced"

\* C8: without a command of the operator, the setup test entered with the
\* counter at 0 adds one to the counter at every tick of the monitor, the
\* phase stays SetupTest while the counter is at most 10 and becomes
\* SetupDone at the tick that makes the counter 11.
C8_SetupTestTicks ==
    /\ [](state.phase = "SetupTest" => state.class3 <= 10)
    /\ [][MonitorDataEntryWrite
            => (state'.phase = "SetupTest" /\ state'.class3 = 0)]_vars
    /\ [][MonitorSetupTest
            => (/\ state.phase = "SetupTest"
                /\ state'.class3 = state.class3 + 1
                /\ state'.phase = IF state'.class3 = 11
                                  THEN "SetupDone" ELSE "SetupTest")]_vars

\* the setup test has ended, at the tick that made the counter 11
C8_SetupDoneAtEleven ==
    /\ state.phase = "SetupDone"
    /\ state.class3 = 11
    /\ mon.pc = "poll"
    /\ state.log[Len(state.log)] = <<"Setup test complete">>

\* the number of pulses the log records
BeamsDelivered(log) ==
    Cardinality({i \in 1..Len(log) : log[i][1] = "Beam delivered"})

\* C9: with the console and the hardware at {XRay, E25, InPosition}, the
\* dose target at 200 cGy and no random fault, every beam delivery adds 8.0
\* cGy; the phase stays PatientTreatment while the dose is below 200 cGy and
\* becomes TerminateTreatment at the pulse that brings it to 200 cGy, the
\* 25th.
C9_NormalPulses ==
    /\ [][(/\ ZapWrite
           /\ mon.really_good_number <= 22
           /\ mon.console_meos = XRayE25In
           /\ mon.hardware_meos = XRayE25In
           /\ state.hardware_meos = XRayE25In
           /\ state.phase = "PatientTreatment"
           /\ state.dose_target = 2000)
          => (/\ state'.dose_delivered = state.dose_delivered + 80
              /\ state'.phase = IF state'.dose_delivered >= 2000
                                THEN "TerminateTreatment"
                                ELSE "PatientTreatment")]_vars
    /\ [](state.phase = "PatientTreatment"
            => (/\ state.dose_delivered < 2000
                /\ state.dose_delivered = 80 * BeamsDelivered(state.log)))
    /\ [](state.phase = "TerminateTreatment"
            => (/\ state.dose_delivered = 2000
                /\ BeamsDelivered(state.log) = 25))

\* the treatment has ended at the 25th pulse, without a malfunction
C9_TerminatedAtTarget ==
    /\ state.phase = "TerminateTreatment"
    /\ state.dose_delivered = 2000
    /\ state.malfunction_count = 0
    /\ BeamsDelivered(state.log) = 25
    /\ state.log[Len(state.log)] = <<"Target dose reached">>

\* C10: generate_race_condition_parameters turns X-ray into electron and
\* electron into X-ray and keeps the collimator position and the energy of
\* its argument; applied to a safe configuration it returns an unsafe one.
C10_RaceParametersUnsafe ==
    (obs.fn = "generate_race_condition_parameters"
     /\ obs.arg.beam_type # "Undefined") =>
        /\ obs.res[1].beam_type =
              (IF obs.arg.beam_type = "XRay" THEN "Electron" ELSE "XRay")
        /\ obs.res[1].collimator = obs.arg.collimator
        /\ obs.res[1].beam_energy = obs.arg.beam_energy
        /\ (is_safe(obs.arg) => ~is_safe(obs.res[1]))

C10_SafeArgumentEvaluated ==
    /\ obs.fn = "generate_race_condition_parameters"
    /\ obs.arg = MkMeos("Electron", "E15", "OutOfPosition")
    /\ is_safe(obs.arg)
    /\ obs.res = <<MkMeos("XRay", "E15", "OutOfPosition")>>
    /\ ~is_safe(obs.res[1])

\* the changes of phase of the state machine, a reset command apart
PhaseGraph ==
    { <<"Reset", "DataEntry">>, <<"DataEntry", "SetupTest">>,
      <<"SetupTest", "SetupDone">>, <<"SetupDone", "PatientTreatment">>,
      <<"PatientTreatment", "PauseTreatment">>,
      <<"PauseTreatment", "PatientTreatment">>,
      <<"PatientTreatment", "TerminateTreatment">>,
      <<"PauseTreatment", "TerminateTreatment">>,
      <<"TerminateTreatment", "Reset">>, <<"DateTimeIdChanges", "DataEntry">> }

\* C11: every change of the phase is an edge of the phase graph or the effect
\* of a reset command; in particular the phase never goes from Reset to
\* SetupTest or to PauseTreatment.
C11_PhaseGraphOnly ==
    [][state'.phase # state.phase
       => (<<state.phase, state'.phase>> \in PhaseGraph \/ ResetCommand)]_vars

\* C12: the write section of a beam delivery changes dose_delivered,
\* malfunction_count, last_malfunction or the phase only when the phase is
\* PatientTreatment at the write.
C12_ZapOnlyInTreatment ==
    [][(/\ ZapWrite
        /\ \/ state'.dose_delivered # state.dose_delivered
           \/ state'.malfunction_count # state.malfunction_count
           \/ state'.last_malfunction # state.last_malfunction
           \/ state'.phase # state.phase)
       => state.phase = "PatientTreatment"]_vars

\* C13: a beam delivery that ends in a parameter mismatch, a critical safety
\* violation or a random hardware fault adds exactly 1 to malfunction_count,
\* sets last_malfunction to a message, appends that message to the log and
\* sets the phase to PauseTreatment, in its one write section; a beam
\* delivery that ends in a normal pulse changes neither malfunction_count
\* nor last_malfunction.
C13_MalfunctionRecorded ==
    [][ZapWrite =>
         IF \/ mon.console_meos # mon.hardware_meos
            \/ ~is_safe(state.hardware_meos)
            \/ mon.really_good_number > 22
         THEN /\ state'.malfunction_count = state.malfunction_count + 1
              /\ Len(state'.last_malfunction) = 1
              /\ Len(state'.log) >= 1
              /\ state'.log[Len(state'.log)] = state'.last_malfunction[1]
              /\ state'.phase = "PauseTreatment"
         ELSE /\ state'.malfunction_count = state.malfunction_count
              /\ state'.last_malfunction = state.last_malfunction]_vars

\* a random hardware fault has been recorded on a safe hardware configuration
C13_RandomFaultRecorded ==
    /\ LastMalfunctionKind = "MALFUNCTION random"
    /\ state.last_malfunction[1][2] = 23
    /\ state.log[Len(state.log)] = state.last_malfunction[1]
    /\ state.malfunction_count = 1
    /\ state.phase = "PauseTreatment"
    /\ is_safe(state.hardware_meos)
    /\ mon.pc = "poll"

----------------------------------------------------------------------------
(* One command of the operator, issued in a state of a session and recorded *)
(* with the state before it and the state after it                          *)

\* the states a session goes through: the console set to X-ray with the
\* collimator out, the hardware synchronised, the collimator corrected, the
\* data entry completed, the eleven ticks of the setup test, the treatment
\* started, paused, and terminated by a pulse that reaches an 8 cGy target
SessionStates(d) ==
    LET s1 == add_log(TheracStateNew(d), <<"System initialized">>)
        s2 == handle_reset(s1)
        s3 == update_console_meos(s2, XRayE25Out)
        s4 == sync_move(s3)
        s5 == sync_complete(s4, "XRay")
        s6 == update_console_meos(s5, XRayE25In)
        s7 == complete_data_entry(s6)
        s8 == handle_data_entry(s7)
        s9 == start_treatment(SetupTestTicks(s8, 11))
    IN  {s1, s2, s3, s4, s5, s6, s7, s9, stop_treatment(s9),
         normal_pulse(set_dose_target(s9, 80))}
        \cup {SetupTestTicks(s8, n) : n \in 0..11}

InitCommands ==
    /\ \E d \in Draws : state \in SessionStates(d)
    /\ mon = MonIdle
    /\ hk = HkIdle
    /\ run = RunWhole
    /\ obs = ObsIdle
    /\ lock = "free"

CallStartTreatment ==
    /\ Section
    /\ obs.fn = "none"
    /\ state' = start_treatment(Locked)
    /\ obs' = [fn |-> "start_treatment", arg |-> state, res |-> <<state'>>]
    /\ UNCHANGED <<mon, hk, run>>

CallStopTreatment ==
    /\ Section
    /\ obs.fn = "none"
    /\ state' = stop_treatment(Locked)
    /\ obs' = [fn |-> "stop_treatment", arg |-> state, res |-> <<state'>>]
    /\ UNCHANGED <<mon, hk, run>>

CallResumeTreatment ==
    /\ Section
    /\ obs.fn = "none"
    /\ state' = resume_treatment(Locked)
    /\ obs' = [fn |-> "resume_treatment", arg |-> state, res |-> <<state'>>]
    /\ UNCHANGED <<mon, hk, run>>

CallCompleteDataEntry ==
    /\ Section
    /\ obs.fn = "none"
    /\ state' = complete_data_entry(Locked)
    /\ obs' = [fn |-> "complete_data_entry", arg |-> state, res |-> <<state'>>]
    /\ UNCHANGED <<mon, hk, run>>

CallUpdateConsoleMeos ==
    /\ Section
    /\ obs.fn = "none"
    /\ \E meos \in ConsoleInputs : state' = update_console_meos(Locked, meos)
    /\ obs' = [fn |-> "update_console_meos", arg |-> state, res |-> <<state'>>]
    /\ UNCHANGED <<mon, hk, run>>

NextCommands ==
    \/ CallStartTreatment
    \/ CallStopTreatment
    \/ CallResumeTreatment
    \/ CallCompleteDataEntry
    \/ CallUpdateConsoleMeos

SpecCommands == InitCommands /\ [][NextCommands]_vars

\* the phases in which a command takes effect
ValidPhases(command) ==
    CASE command = "start_treatment"     -> {"SetupDone"}
      [] command = "stop_treatment"      -> {"PatientTreatment"}
      [] command = "resume_treatment"    -> {"PauseTreatment"}
      [] command = "complete_data_entry" -> {"DataEntry"}
      [] command = "update_console_meos" -> {"DataEntry", "SetupTest"}
      [] OTHER                           -> TPhases

\* C14: a command issued in a phase in which it is not valid leaves every
\* field of the state as it was, the log apart, and adds an entry to the log.
C14_InvalidCommandLogged ==
    (obs.fn # "none" /\ obs.arg.phase \notin ValidPhases(obs.fn)) =>
        /\ [obs.res[1] EXCEPT !.log = obs.arg.log] = obs.arg
        /\ Len(obs.res[1].log) = Len(obs.arg.log) + 1
        /\ SubSeq(obs.res[1].log, 1, Len(obs.arg.log)) = obs.arg.log

----------------------------------------------------------------------------
(* The readers of the log: WasmTherac25::get_log and the embedding example *)

\* number of set_dose_target commands before the log is read
MaxLogged == 110

GET_LOG_LIMIT == 50

RECENT_ENTRIES == 5

\* iter().rev()
Reverse(seq) == [i \in 1..Len(seq) |-> seq[Len(seq) + 1 - i]]

\* take(n)
Take(seq, n) == SubSeq(seq, 1, IF Len(seq) < n THEN Len(seq) ELSE n)

\* state.log.iter().rev().take(50).collect()
get_log(s) == Take(Reverse(s.log), GET_LOG_LIMIT)

\* s.log.iter().rev().take(5).rev()
recent_log_entries(s) == Reverse(Take(Reverse(s.log), RECENT_ENTRIES))

InitLog ==
    /\ \E d \in Draws :
          state = add_log(TheracStateNew(d), <<"System initialized">>)
    /\ mon = MonIdle
    /\ hk = HkIdle
    /\ run = RunWhole
    /\ obs = ObsIdle
    /\ lock = "free"

\* the operator raises the dose target by 1 cGy, MaxLogged times at most
RaiseDoseTarget ==
    /\ Section
    /\ obs.fn = "none"
    /\ state.dose_target < TheracStateNew(CHOOSE d \in Draws : TRUE).dose_target
                              + 10 * MaxLogged
    /\ state' = set_dose_target(Locked, state.dose_target + 10)
    /\ UNCHANGED <<mon, hk, run, obs>>

CallGetLog ==
    /\ Section
    /\ obs.fn = "none"
    /\ obs' = [fn |-> "get_log", arg |-> state.log, res |-> <<get_log(state)>>]
    /\ UNCHANGED <<state, mon, hk, run>>

ShowRecentLogEntries ==
    /\ Section
    /\ obs.fn = "none"
    /\ obs' = [fn |-> "recent_log_entries", arg |-> state.log,
               res |-> <<recent_log_entries(state)>>]
    /\ UNCHANGED <<state, mon, hk, run>>

NextLog == RaiseDoseTarget \/ CallGetLog \/ ShowRecentLogEntries

SpecLog == InitLog /\ [][NextLog]_vars

\* C15: the reader of the log returns the most recent min(n, length of the
\* log) entries in chronological order, the newest last (n is 50 for get_log
\* and 5 for the embedding example).
C15_GetLogNewestLast ==
    /\ obs.fn = "get_log" => obs.res[1] = LastEntries(obs.arg, 50)
    /\ obs.fn = "recent_log_entries" => obs.res[1] = LastEntries(obs.arg, 5)

\* the beam delivery is not entered any more: a bound of the model is reached
ZapBounded ==
    /\ mon.pc = "zap_read"
    /\ \/ state.malfunction_count >= run.max_malfunctions
       \/ state.dose_delivered >= run.max_dose

----------------------------------------------------------------------------
(* A treatment left to the two tasks, the monitor scheduled fairly *)

InitTreatment ==
    /\ \E d \in Draws : state = SessionTreating(d)
    /\ mon = MonIdle
    /\ hk = HkIdle
    /\ run = RunWhole
    /\ obs = ObsIdle
    /\ lock = "free"

\* the console of this session is safe by its own collimator, so the
\* housekeeper only polls
NextTreatment == Monitor \/ HkNeedsSync \/ HkParamsCheck

\* the runtime polls the monitor again after every sleep
SpecTreatment ==
    InitTreatment /\ [][NextTreatment]_vars /\ WF_vars(Monitor)

\* C17: once the phase is TerminateTreatment it eventually becomes Reset,
\* the monitor being scheduled fairly; the phase leaves TerminateTreatment
\* for Reset only, in the step that appends the final dose summary to the
\* log.
C17_TerminateLoopsToReset ==
    /\ (state.phase = "TerminateTreatment") ~> (state.phase = "Reset")
    /\ [][(state.phase = "TerminateTreatment"
           /\ state'.phase # "TerminateTreatment")
          => (/\ state'.phase = "Reset"
              /\ state'.log =
                    Append(state.log, <<"Treatment terminated",
                                        state.dose_delivered, state.dose_target>>))
       ]_vars

\* the monitor has logged the summary of the terminated treatment and set
\* the phase to Reset
C17_TerminatedAndReset ==
    /\ state.phase = "Reset"
    /\ state.log[Len(state.log)] = <<"Treatment terminated", 2000, 2000>>
    /\ state.log[Len(state.log) - 1] = <<"Target dose reached">>
    /\ mon.pc = "poll"

----------------------------------------------------------------------------
(* The operator editing the console while the housekeeper, scheduled
   fairly, synchronises the hardware *)

\* the monitor stays in data entry: the operator never completes it
NextSync ==
    \/ Housekeeper
    \/ UpdateConsoleMeos
    \/ MonitorDispatch
    \/ MonitorReset
    \/ MonitorDataEntryRead

\* the runtime polls the housekeeper again after every sleep
SpecSync == Init /\ [][NextSync]_vars /\ WF_vars(Housekeeper)

\* C18: for every console configuration, if the console configuration
\* stays unchanged and the phase stays outside PatientTreatment, then, the
\* housekeeper being scheduled fairly, the hardware beam type and energy
\* eventually equal those of the console and the hardware collimator
\* eventually is the position implied by the console beam type.
C18_HardwareFollowsConsole ==
    \A c \in ConsoleInputs :
        <>[](state.console_meos = c /\ state.phase # "PatientTreatment")
        => <>(state.hardware_meos =
                 MkMeos(c.beam_type, c.beam_energy, SafeCollimator(c.beam_type)))

\* C19: a beam delivery whose two copies, read before the sleep, differ
\* leaves dose_delivered unchanged, sets the phase to PauseTreatment and
\* records the parameter mismatch only (one malfunction, message
\* "MALFUNCTION 54"), whatever the hardware configuration of the state and
\* the random number are at the write.
C19_MismatchDeliversNothing ==
    [][(ZapWrite /\ mon.console_meos # mon.hardware_meos)
       => (/\ state'.dose_delivered = state.dose_delivered
           /\ state'.phase = "PauseTreatment"
           /\ state'.malfunction_count = state.malfunction_count + 1
           /\ state'.last_malfunction =
                 << <<"MALFUNCTION 54", state'.malfunction_count,
                      mon.console_meos.beam_type, mon.console_meos.collimator,
                      mon.hardware_meos.beam_type, mon.hardware_meos.collimator>> >>
           /\ state'.log[Len(state'.log)] = state'.last_malfunction[1])]_vars

\* a mismatch has been recorded although the hardware was unsafe at the
\* write: the copy of the hardware had the collimator in position, the
\* hardware of the state has it moving, and no dose was delivered
C19_MismatchWhileUnsafe ==
    /\ LastMalfunctionKind = "MALFUNCTION 54"
    /\ state.last_malfunction[1][6] = "InPosition"
    /\ state.hardware_meos = XRayE25Moving
    /\ ~is_safe(state.hardware_meos)
    /\ state.dose_delivered = 0
    /\ state.phase = "PauseTreatment"
    /\ mon.pc = "poll"

\* C20: a beam delivery whose two copies are equal and that finds the
\* hardware of the state unsafe adds the dose of one pulse of that hardware
\* times m to dose_delivered, m being 100 for X-ray with the collimator out
\* of position, 0.1 for electron with the collimator in position and 1 in
\* every other unsafe case, and sets the phase to PauseTreatment.
C20_UnsafePulseMultiplied ==
    [][(/\ ZapWrite
        /\ mon.console_meos = mon.hardware_meos
        /\ ~is_safe(state.hardware_meos))
       => LET h == state.hardware_meos
              tenths ==
                  IF h.beam_type = "XRay" /\ h.collimator = "OutOfPosition"
                  THEN 1000
                  ELSE IF h.beam_type = "Electron" /\ h.collimator = "InPosition"
                  THEN 1
                  ELSE 10
          IN  /\ state'.dose_delivered =
                    state.dose_delivered + (calculate_dose(h) * tenths) \div 10
              /\ state'.phase = "PauseTreatment"]_vars

\* an electron pulse through the collimator in position has been delivered
\* at a tenth of its dose (1.0 cGy of 10.0)
C20_ElectronUnderdose ==
    /\ LastMalfunctionKind = "CRITICAL SAFETY VIOLATION"
    /\ state.last_malfunction[1][2] = 1
    /\ state.last_malfunction[1][3] = 10
    /\ state.hardware_meos = ElectronE25In
    /\ state.console_meos = ElectronE25In
    /\ state.dose_delivered = 10
    /\ state.phase = "PauseTreatment"
    /\ mon.pc = "poll"

\* C21: in the write section of a beam delivery the two copies are compared
\* first, the hardware of the state is tested second and the random number
\* last: differing copies record the mismatch, equal copies on unsafe
\* hardware record the safety violation, and the random fault is recorded
\* exactly when the copies are equal, the hardware of the state is safe and
\* the random number is above 22; the random fault leaves dose_delivered
\* unchanged and sets the phase to PauseTreatment.
C21_ChecksInOrder ==
    [][ZapWrite
       => LET logged == state'.log[Len(state'.log)][1]
              differ == mon.console_meos # mon.hardware_meos
              unsafe == ~is_safe(state.hardware_meos)
          IN  /\ differ => logged = "MALFUNCTION 54"
              /\ (~differ /\ unsafe) => logged = "CRITICAL SAFETY VIOLATION"
              /\ logged = "MALFUNCTION random"
                    <=> (~differ /\ ~unsafe /\ mon.really_good_number > 22)
              /\ logged = "MALFUNCTION random"
                    => (/\ state'.dose_delivered = state.dose_delivered
                        /\ state'.malfunction_count = state.malfunction_count + 1
                        /\ state'.phase = "PauseTreatment")]_vars

\* a random fault has been recorded after a pulse was delivered: the dose of
\* that pulse is still the dose delivered
C21_RandomFaultAfterPulse ==
    /\ LastMalfunctionKind = "MALFUNCTION random"
    /\ state.log[Len(state.log)] = <<"MALFUNCTION random", 23>>
    /\ state.dose_delivered = 80
    /\ state.hardware_meos = XRayE25In
    /\ state.console_meos = XRayE25In
    /\ state.phase = "PauseTreatment"
    /\ mon.pc = "poll"

\* C22: a beam delivery whose two copies are equal, that finds the hardware
\* of the state safe and whose random number is not above 22 adds exactly
\* the dose of one pulse of that hardware to dose_delivered; the phase is
\* then TerminateTreatment if dose_delivered has reached dose_target and is
\* left as it was otherwise; no malfunction is counted.
C22_NormalPulse ==
    [][(/\ ZapWrite
        /\ mon.console_meos = mon.hardware_meos
        /\ is_safe(state.hardware_meos)
        /\ mon.really_good_number <= 22)
       => (/\ state'.dose_delivered =
                 state.dose_delivered + calculate_dose(state.hardware_meos)
           /\ state'.phase = IF state'.dose_delivered >= state.dose_target
                             THEN "TerminateTreatment"
                             ELSE state.phase
           /\ state'.malfunction_count = state.malfunction_count)]_vars

\* one pulse has reached the target exactly and ended the treatment
C22_TargetReachedExactly ==
    /\ state.phase = "TerminateTreatment"
    /\ state.dose_delivered = 80
    /\ state.dose_target = 80
    /\ state.hardware_meos = XRayE25In
    /\ state.malfunction_count = 0
    /\ state.log[Len(state.log)] = <<"Target dose reached">>
    /\ mon.pc = "poll"

\* the energy levels in ascending order
EnergyLevels == <<"E5", "E10", "E15", "E20", "E25">>

\* C23: calculate_dose is, in tenths of a cGy, 20, 40, 60, 80 and 100 for
\* the electron mode at 5, 10, 15, 20 and 25 MeV and 0.8 times that for the
\* X-ray mode; for both modes it is strictly increasing in the energy.
C23_DoseTable ==
    (obs.fn = "calculate_dose" /\ obs.arg.beam_type # "Undefined") =>
        LET electron == [E5 |-> 20, E10 |-> 40, E15 |-> 60, E20 |-> 80,
                         E25 |-> 100]
        IN  /\ obs.res[1] = IF obs.arg.beam_type = "Electron"
                            THEN electron[obs.arg.beam_energy]
                            ELSE (electron[obs.arg.beam_energy] * 8) \div 10
            /\ 10 * obs.res[1] = IF obs.arg.beam_type = "Electron"
                                 THEN 10 * electron[obs.arg.beam_energy]
                                 ELSE 8 * electron[obs.arg.beam_energy]
            /\ \A i, j \in 1..Len(EnergyLevels) :
                  (i < j /\ EnergyLevels[j] = obs.arg.beam_energy)
                  => calculate_dose([obs.arg EXCEPT !.beam_energy = EnergyLevels[i]])
                        < obs.res[1]

\* the dose of an X-ray pulse at 25 MeV has been computed: 8.0 cGy
C23_XRayTopEvaluated ==
    /\ obs.fn = "calculate_dose"
    /\ obs.arg = MkMeos("XRay", "E25", "InPosition")
    /\ obs.res = <<80>>

\* C24: the housekeeper begins a synchronisation of the collimator in a
\* poll exactly when, at its read, the phase is not PatientTreatment, the
\* beam type of the console is unsafe with the collimator position of the
\* hardware, and the collimator of the hardware is not Transitioning.
C24_SyncBeginsWhenNeeded ==
    [][HkNeedsSync
       => (hk'.pc = "sync_read"
           <=> (/\ state.phase # "PatientTreatment"
                /\ ~is_safe(MkMeos(state.console_meos.beam_type,
                                   state.console_meos.beam_energy,
                                   state.hardware_meos.collimator))
                /\ state.hardware_meos.collimator # "Transitioning"))]_vars

\* C25: in the state right after the write that completes a synchronisation
\* the beam type and the energy of the hardware are those of the console of
\* that state and the collimator of the hardware is the position implied by
\* that beam type, also when the console was changed during the movement;
\* the hardware is then safe unless the beam type of the console is
\* Undefined.
C25_CompletedSyncIsSafe ==
    [][HkSyncComplete
       => LET c == state'.console_meos
          IN  /\ state'.hardware_meos =
                    MkMeos(c.beam_type, c.beam_energy, SafeCollimator(c.beam_type))
              /\ c.beam_type # "Undefined" => is_safe(state'.hardware_meos)]_vars

----------------------------------------------------------------------------
(* The operator setting the gantry angle and the console, then starting a
   treatment, while the housekeeper, scheduled fairly, synchronises the
   hardware *)

NextParams ==
    \/ MonitorDispatch
    \/ MonitorReset
    \/ MonitorDataEntryRead
    \/ MonitorDataEntryWrite
    \/ MonitorSetupTest
    \/ ZapRead
    \/ ZapWrite
    \/ Housekeeper
    \/ HousekeeperParams
    \/ SetGantryAngle
    \/ UpdateConsoleMeos
    \/ CompleteDataEntry
    \/ StartTreatment

\* the runtime polls the housekeeper again after every sleep
SpecParams ==
    Init /\ [][NextParams]_vars /\ WF_vars(Housekeeper \/ HousekeeperParams)

\* the gantry angles the console can show
GantryAngles == {0, 90, 360}

C27_NoSyncDuringTreatment ==
    [][(HkSyncMove \/ HkSyncComplete \/ HkParamsWrite)
       => state.phase # "PatientTreatment"]_vars

----------------------------------------------------------------------------
(* The prescription generator under every draw of the beam type and of the
   energy *)

\* gen_bool(0.5) and gen_range(0..5)
AllDraws == [xray : BOOLEAN, energy : 0..4, dose : RandDose, params : RandParams]

generate_random_parameters(d) ==
    LET beam_type == IF d.xray THEN "XRay" ELSE "Electron"
        beam_energy == EnergyOf(d.energy)
        collimator == SafeCollimator(beam_type)
    IN  MkMeos(beam_type, beam_energy, collimator)

InitPrescription ==
    /\ \E d \in AllDraws :
          state = add_log(TheracStateNew(d), <<"System initialized">>)
    /\ mon = MonIdle
    /\ hk = HkIdle
    /\ run = RunRecent
    /\ obs = ObsIdle
    /\ lock = "free"

ResetAnyPrescription ==
    /\ Section
    /\ \E d \in AllDraws : state' = reset(Locked, d)
    /\ UNCHANGED <<mon, hk, run, obs>>

CallGenerateRandomParameters ==
    /\ \E d \in AllDraws :
          obs' = [fn |-> "generate_random_parameters", arg |-> MeosDefault,
                  res |-> <<generate_random_parameters(d)>>]
    /\ UNCHANGED <<state, mon, hk, run, lock>>

NextPrescription ==
    \/ ResetAnyPrescription
    \/ CallGenerateRandomParameters
    \/ MonitorDispatch
    \/ MonitorReset
    \/ MonitorDataEntryRead

SpecPrescription == InitPrescription /\ [][NextPrescription]_vars

\* C29: in every state, the initial one and those after any number of
\* resets, the reference configuration has the beam type XRay or Electron
\* and is safe; every configuration returned by generate_random_parameters
\* is safe.
C29_PrescriptionSafe ==
    /\ state.reference_meos.beam_type \in {"XRay", "Electron"}
    /\ is_safe(state.reference_meos)
    /\ obs.fn = "generate_random_parameters" => is_safe(obs.res[1])

\* a reset has drawn an electron prescription at 5 MeV, and
\* generate_random_parameters has returned X-ray at 25 MeV
C29_ElectronPrescribedAfterReset ==
    /\ state.phase = "Reset"
    /\ Len(state.log) > 0
    /\ state.log[Len(state.log)][1] = "New prescription"
    /\ state.reference_meos = MkMeos("Electron", "E5", "OutOfPosition")
    /\ obs.fn = "generate_random_parameters"
    /\ obs.res = <<XRayE25In>>

\* C30: every write section of a beam delivery that increases dose_delivered
\* without increasing malfunction_count finds the hardware configuration of
\* the state at that write safe, whatever the housekeeper did since the
\* copies were read.
C30_UncountedPulseIsSafe ==
    [][(/\ ZapWrite
        /\ state'.dose_delivered > state.dose_delivered
        /\ state'.malfunction_count = state.malfunction_count)
       => (/\ is_safe(state.hardware_meos)
           /\ state'.hardware_meos = state.hardware_meos)]_vars

\* a pulse has been delivered and not counted as a malfunction while the
\* housekeeper was about to move the collimator
C30_PulseBeforeMove ==
    /\ Len(state.log) > 0
    /\ state.log[Len(state.log)][1] = "Beam delivered"
    /\ state.dose_delivered = 80
    /\ state.malfunction_count = 0
    /\ state.phase = "PatientTreatment"
    /\ is_safe(state.hardware_meos)
    /\ hk.pc = "sync_move"
    /\ mon.pc = "poll"

\* C31: whenever the phase changes from SetupDone to PatientTreatment,
\* dose_delivered is 0, also when the treatment before it ended through
\* TerminateTreatment and Reset without a reset command.
C31_TreatmentStartsAtZero ==
    [][(state.phase = "SetupDone" /\ state'.phase = "PatientTreatment")
       => (state.dose_delivered = 0 /\ state'.dose_delivered = 0)]_vars

\* C32: data_entry_complete is false whenever the phase enters DataEntry,
\* so that the treatment monitor moves to SetupTest only after a
\* complete_data_entry accepted since the phase last entered DataEntry.
C32_FreshConfirmation ==
    [][(state'.phase = "DataEntry" /\ state.phase # "DataEntry")
       => state'.data_entry_complete = FALSE]_vars

----------------------------------------------------------------------------
(* A treatment the operator resumes after a malfunction, no reset being
   issued *)

\* zap_the_specimen is not entered once this many malfunctions are recorded
\* in the treatments that are resumed
ScenarioMaxMalfunctions == 2

RunResumed ==
    [whole_log |-> FALSE, max_dose |-> MaxDose,
     max_malfunctions |-> ScenarioMaxMalfunctions]

InitResumed ==
    /\ \E d \in Draws :
          state = add_log(TheracStateNew(d), <<"System initialized">>)
    /\ mon = MonIdle
    /\ hk = HkIdle
    /\ run = RunResumed
    /\ obs = ObsIdle
    /\ lock = "free"

\* zap_the_specimen, the write section; obs.res keeps the dose of every
\* pulse recorded as a critical safety violation
ZapWriteRecorded ==
    /\ Section
    /\ mon.pc = "zap_write"
    /\ state' = zap_the_specimen(Locked, mon.console_meos, mon.hardware_meos,
                                 mon.really_good_number)
    /\ mon' = MonIdle
    /\ obs' = IF state'.log[Len(state'.log)][1] = "CRITICAL SAFETY VIOLATION"
              THEN [fn |-> "zap_the_specimen", arg |-> state.hardware_meos,
                    res |-> Append(obs.res,
                                   state'.dose_delivered - state.dose_delivered)]
              ELSE obs
    /\ UNCHANGED <<hk, run>>

NextResumed ==
    \/ MonitorDispatch
    \/ MonitorReset
    \/ MonitorDataEntryRead
    \/ MonitorDataEntryWrite
    \/ MonitorSetupTest
    \/ ZapRead
    \/ ZapWriteRecorded
    \/ Housekeeper
    \/ UpdateConsoleMeos
    \/ CompleteDataEntry
    \/ StartTreatment
    \/ ResumeTreatment

SpecResumed == InitResumed /\ [][NextResumed]_vars

\* C33: no reset being issued, at most one beam delivery recorded as a
\* critical safety violation adds dose: once such a pulse has paused the
\* treatment, resume_treatment does not lead to a second one.
C33_OneViolationPerSession ==
    Cardinality({i \in DOMAIN obs.res : obs.res[i] > 0}) <= 1

\* the state is the one left by the write that completes a synchronisation
SyncJustCompleted ==
    /\ Len(state.log) > 0
    /\ state.log[Len(state.log)][1] = "Hardware synced"

\* C34: once a synchronisation of the collimator has completed, if the
\* console configuration and the phase do not change afterwards, the
\* collimator of the hardware is never Transitioning again: the housekeeper
\* starts no other movement for the same console configuration.
C34_HousekeeperQuiescent ==
    \A c \in ConsoleInputs \cup {MeosDefault} :
        \A p \in {"Reset", "DataEntry"} :
            []((SyncJustCompleted
                /\ [](state.console_meos = c /\ state.phase = p))
               => [](state.hardware_meos.collimator # "Transitioning"))

\* C35: whenever the collimator of the hardware is Transitioning it
\* eventually is InPosition or OutOfPosition, the housekeeper being
\* scheduled fairly, in every phase, PatientTreatment included.
C35_MovementCompletes ==
    (state.hardware_meos.collimator = "Transitioning")
        ~> (state.hardware_meos.collimator \in {"InPosition", "OutOfPosition"})

\* a movement has completed during a treatment
C35_CompletedDuringTreatment ==
    /\ state.phase = "PatientTreatment"
    /\ SyncJustCompleted
    /\ state.hardware_meos = XRayE25In
    /\ hk.pc = "params_check"

----------------------------------------------------------------------------
(* A treatment left to the two tasks, the monitor scheduled fairly, the
   housekeeper idle or holding a synchronisation it decided on before the
   operator corrected the console *)

HkPending == [HkIdle EXCEPT !.pc = "sync_read"]

InitDelivery ==
    /\ \E d \in Draws : state = SessionTreating(d)
    /\ mon = MonIdle
    /\ hk \in {HkIdle, HkPending}
    /\ run = RunWhole
    /\ obs = ObsIdle
    /\ lock = "free"

NextDelivery == Monitor \/ Housekeeper

\* the runtime polls the monitor again after every sleep
SpecDelivery == InitDelivery /\ [][NextDelivery]_vars /\ WF_vars(Monitor)

\* C36: with no command of the operator and the dose target fixed, the
\* phase PatientTreatment is always followed by PauseTreatment or
\* TerminateTreatment, the monitor being scheduled fairly: every write
\* section of a beam delivery pauses the treatment or adds a dose above 0.
C36_DeliveryEnds ==
    /\ (state.phase = "PatientTreatment")
          ~> (state.phase \in {"PauseTreatment", "TerminateTreatment"})
    /\ [][ZapWrite => (\/ state'.phase = "PauseTreatment"
                       \/ state'.dose_delivered > state.dose_delivered)]_vars

\* a treatment has been paused on its third pulse, which fired while the
\* collimator was moving
C36_PausedMidTreatment ==
    /\ state.phase = "PauseTreatment"
    /\ LastMalfunctionKind = "CRITICAL SAFETY VIOLATION"
    /\ state.dose_delivered = 240
    /\ BeamsDelivered(state.log) = 2
    /\ mon.pc = "poll"

\* C37: the phase becomes TerminateTreatment only in the write section of a
\* beam delivery that takes the normal pulse, and only when dose_delivered
\* has reached dose_target after it; a pulse recorded as a critical safety
\* violation sets the phase to PauseTreatment, also when it takes
\* dose_delivered past dose_target.
C37_TerminateOnlyByNormalPulse ==
    /\ [][(state'.phase = "TerminateTreatment"
           /\ state.phase # "TerminateTreatment")
          => (/\ ZapWrite
              /\ mon.console_meos = mon.hardware_meos
              /\ is_safe(state.hardware_meos)
              /\ mon.really_good_number <= 22
              /\ state'.dose_delivered >= state'.dose_target)]_vars
    /\ [][(ZapWrite
           /\ state'.log[Len(state'.log)][1] = "CRITICAL SAFETY VIOLATION")
          => state'.phase = "PauseTreatment"]_vars

\* a pulse through the collimator out of position has taken the dose far
\* past the target and paused the treatment
C37_ViolationPastTarget ==
    /\ LastMalfunctionKind = "CRITICAL SAFETY VIOLATION"
    /\ state.hardware_meos = XRayE25Out
    /\ state.dose_target = 80
    /\ state.dose_delivered = 8000
    /\ state.phase = "PauseTreatment"
    /\ mon.pc = "poll"

----------------------------------------------------------------------------
(* The operator resetting the system at any moment of a session in which
   the gantry angle, the console and the dose target were set *)

NextReset ==
    \/ MonitorDispatch
    \/ MonitorReset
    \/ MonitorDataEntryRead
    \/ MonitorDataEntryWrite
    \/ MonitorSetupTest
    \/ ZapRead
    \/ ZapWrite
    \/ Housekeeper
    \/ HousekeeperParams
    \/ SetGantryAngle
    \/ SetDoseTarget
    \/ UpdateConsoleMeos
    \/ CompleteDataEntry
    \/ StartTreatment
    \/ ResetCommand

SpecReset == Init /\ [][NextReset]_vars

\* C38: reset leaves the hardware configuration and hardware_params as they
\* are; it sets the console configuration to {Undefined, E10,
\* OutOfPosition}, console_params to their defaults, data_entry_complete to
\* false, class3 to 0, dose_target to 200 cGy and last_malfunction to none.
C38_ResetKeepsHardware ==
    [][ResetCommand
       => (/\ state'.hardware_meos = state.hardware_meos
           /\ state'.hardware_params = state.hardware_params
           /\ state'.console_meos = MkMeos("Undefined", "E10", "OutOfPosition")
           /\ state'.console_params =
                 [gantry_angle |-> 0, collimator_angle |-> 0, field_size_x |-> 10,
                  field_size_y |-> 10, dose_rate |-> 100]
           /\ state'.data_entry_complete = FALSE
           /\ state'.class3 = 0
           /\ state'.dose_target = 2000
           /\ state'.last_malfunction = << >>)]_vars

\* a reset after a malfunction has left the hardware in X-ray mode with the
\* gantry at 90 degrees under a console back at its defaults
C38_HardwareAfterReset ==
    /\ state.phase = "Reset"
    /\ Len(state.log) > 0
    /\ state.log[Len(state.log)][1] = "New prescription"
    /\ state.hardware_meos = XRayE25In
    /\ state.hardware_params.gantry_angle = 90
    /\ state.console_meos = MeosDefault
    /\ state.console_params = TreatmentParamsDefault
    /\ state.malfunction_count = 1

\* C39: the write section of a beam delivery, whichever of its four
\* branches it takes, leaves the console, hardware and reference
\* configurations, the three parameter records, dose_target,
\* data_entry_complete and class3 unchanged; it writes only dose_delivered,
\* malfunction_count, last_malfunction, the phase and the log.
C39_DeliveryKeepsConfiguration ==
    [][ZapWrite
       => (/\ state'.console_meos = state.console_meos
           /\ state'.hardware_meos = state.hardware_meos
           /\ state'.reference_meos = state.reference_meos
           /\ state'.console_params = state.console_params
           /\ state'.hardware_params = state.hardware_params
           /\ state'.reference_params = state.reference_params
           /\ state'.dose_target = state.dose_target
           /\ state'.data_entry_complete = state.data_entry_complete
           /\ state'.class3 = state.class3
           /\ [state' EXCEPT !.dose_delivered = state.dose_delivered,
                             !.malfunction_count = state.malfunction_count,
                             !.last_malfunction = state.last_malfunction,
                             !.phase = state.phase,
                             !.log = state.log] = state)]_vars

\* a mismatch has been recorded and console and hardware still differ as
\* they did before the pulse
C39_MismatchLeftInPlace ==
    /\ LastMalfunctionKind = "MALFUNCTION 54"
    /\ state.log = state.last_malfunction
    /\ state.console_meos = ElectronE25In
    /\ state.hardware_meos = XRayE25In
    /\ state.data_entry_complete = TRUE
    /\ state.class3 = 11
    /\ mon.pc = "poll"

----------------------------------------------------------------------------
(* input.rs: the setup test started by a command of the operator *)

\* the setup-test command is not issued once class3 is above this value
MaxSetupCounter == 11

handle_setup_test_command(s) ==
    IF s.phase = "DataEntry" /\ s.data_entry_complete
    THEN add_log([s EXCEPT !.phase = "SetupTest"],
                 <<"[OPERATOR] Setup test initiated">>)
    ELSE s

SetupTestCommand ==
    /\ Section
    /\ state.class3 <= MaxSetupCounter
    /\ state' = Written(handle_setup_test_command(Locked))
    /\ UNCHANGED <<mon, hk, run, obs>>

NextSetup ==
    \/ Monitor
    \/ Housekeeper
    \/ UpdateConsoleMeos
    \/ SetDoseTarget
    \/ CompleteDataEntry
    \/ SetupTestCommand
    \/ StartTreatment
    \/ ResetCommand

SpecSetup == Init /\ [][NextSetup]_vars

\* C40: class3 is at most 11 in every reachable state: it is 0 whenever the
\* phase enters SetupTest and the phase leaves SetupTest as soon as class3
\* is above 10, also when a reset or the setup-test command comes between
\* the monitor's poll and its increment.
C40_CounterNeverWraps == state.class3 <= 11

====
